---- MODULE Spec2Model ----
(***************************************************************************)
(* A model of CollapsingBuilder (src/model/collapse.rs): a staging layer   *)
(* in front of a StyleVecBuilder that collapses weak items.                *)
(*                                                                         *)
(* An item is a record [id, payload].  The id is the index of the call     *)
(* that handed the item to the builder: it stands for the identity of the  *)
(* value whose ownership moves from the caller into the builder, together  *)
(* with the StyleChain that travels with it and is never inspected.  The   *)
(* payload is what `PartialOrd` compares.                                  *)
(*                                                                         *)
(* iter is the iterator handed out by items(): it borrows the builder, so  *)
(* it is gone before any call that takes `&mut self` or `self`.            *)
(***************************************************************************)
EXTENDS Integers, Sequences, FiniteSets, TLC

VARIABLES builder, staged, last, calls, finished, iter

vars == <<builder, staged, last, calls, finished, iter>>

---------------------------------------------------------------------------
(* Bounds *)

\* number of weak/destructive/supportive/ignorant calls before finish()
MaxCalls == 5
\* largest `weakness: u8` a caller passes
MaxWeakness == 1

---------------------------------------------------------------------------
(* Items and their ordering *)

Colbreak == [kind |-> "Colbreak", amount |-> 0]

Node == [kind |-> "Node", amount |-> 0]

Spacing(a) == [kind |-> "Spacing", amount |-> a]

\* the spacing amounts of abs(10.0) and abs(20.0)
Amounts == {10, 20}

Weaknesses == 0..MaxWeakness

\* <<payload, weakness>> pairs submitted through weak(): those of
\* test_collapsing_weak (a column break and both spacings at weakness 0, the
\* larger spacing at weakness 1), the larger spacing at every weakness above 0
WeakInputs ==
    ({Colbreak} \cup {Spacing(a) : a \in Amounts}) \X {0}
      \cup ({Spacing(20)} \X (Weaknesses \ {0}))

\* payloads submitted through destructive(), supportive() and ignorant();
\* these calls never look at the payload
OtherPayloads == {Node}

\* `a > b` through PartialOrd: spacings compare by amount, everything else
\* is incomparable (a strict partial order; equal payloads are not greater)
Gt(a, b) == a.kind = "Spacing" /\ b.kind = "Spacing" /\ a.amount > b.amount

\* Option<u8>
None == <<>>

Some(w) == <<w>>

---------------------------------------------------------------------------
(* The builder as a value: [builder, staged, last] *)

\* new that starts as if content had just been pushed
new_after_content == [builder |-> <<>>, staged |-> <<>>, last |-> "Supportive"]

new == [builder |-> <<>>, staged |-> <<>>, last |-> "Destructive"]

\* is_empty that looks at the committed items only
is_empty_committed(self) == self.builder = <<>>

is_empty(self) == self.builder = <<>> /\ self.staged = <<>>

\* Vec::remove(i), 1-based
remove(seq, i) == SubSeq(seq, 1, i - 1) \o SubSeq(seq, i + 1, Len(seq))

\* beats with the weakness comparison reversed (the weaker challenger wins)
beats_weaker_wins(item, weakness, entry) ==
    /\ entry.meta # None
    /\ \/ weakness > entry.meta[1]
       \/ (weakness = entry.meta[1] /\ Gt(item.payload, entry.item.payload))

\* beats with the tie-break reversed (the smaller item wins a tie)
beats_smaller_wins(item, weakness, entry) ==
    /\ entry.meta # None
    /\ \/ weakness < entry.meta[1]
       \/ (weakness = entry.meta[1] /\ Gt(entry.item.payload, item.payload))

\* beats with `>=` as the tie-break
beats_or_equal(item, weakness, entry) ==
    /\ entry.meta # None
    /\ \/ weakness < entry.meta[1]
       \/ /\ weakness = entry.meta[1]
          /\ \/ Gt(item.payload, entry.item.payload)
             \/ item.payload = entry.item.payload

\* the closure handed to position(): does the challenger beat this entry?
beats(item, weakness, entry) ==
    /\ entry.meta # None
    /\ \/ weakness < entry.meta[1]
       \/ (weakness = entry.meta[1] /\ Gt(item.payload, entry.item.payload))

\* position that looks only at the entry staged last
position_last_only(entries, item, weakness) ==
    IF entries # <<>> /\ beats(item, weakness, entries[Len(entries)])
    THEN Len(entries)
    ELSE 0

\* Iterator::position: index of the first entry the challenger beats, 0 if
\* there is none
position(entries, item, weakness) ==
    LET hits == {i \in 1..Len(entries) : beats(item, weakness, entries[i])}
    IN  IF hits = {} THEN 0
        ELSE CHOOSE i \in hits : \A j \in hits : i <= j

\* weak that pushes the challenger without removing the entry it beat
weak_keeps_beaten(self, item, weakness) ==
    LET i == position(self.staged, item, weakness)
    IN  IF self.last = "Destructive" THEN self
        ELSE IF self.last = "Weak" /\ i = 0 THEN self
        ELSE [self EXCEPT
                !.staged = Append(self.staged,
                                  [item |-> item, meta |-> Some(weakness)]),
                !.last = "Weak"]

\* weak without the `else { return; }` for a challenger that beats nothing
weak_pushes_loser(self, item, weakness) ==
    LET i == position(self.staged, item, weakness)
    IN  IF self.last = "Destructive" THEN self
        ELSE [self EXCEPT
                !.staged = Append(IF self.last = "Weak" /\ i # 0
                                  THEN remove(self.staged, i)
                                  ELSE self.staged,
                                  [item |-> item, meta |-> Some(weakness)]),
                !.last = "Weak"]

\* weak that overwrites the beaten entry in place instead of removing it and
\* pushing the challenger at the end
weak_in_place(self, item, weakness) ==
    IF self.last = "Destructive" THEN self
    ELSE IF self.last = "Weak" /\ position(self.staged, item, weakness) = 0
         THEN self
    ELSE IF self.last = "Weak"
         THEN [self EXCEPT
                 !.staged[position(self.staged, item, weakness)] =
                    [item |-> item, meta |-> Some(weakness)]]
    ELSE [self EXCEPT
            !.staged = Append(self.staged,
                              [item |-> item, meta |-> Some(weakness)]),
            !.last = "Weak"]

\* weak without the early return on Last::Destructive
weak_after_break(self, item, weakness) ==
    IF self.last = "Weak" /\ position(self.staged, item, weakness) = 0
    THEN self
    ELSE LET kept == IF self.last = "Weak"
                     THEN remove(self.staged,
                                 position(self.staged, item, weakness))
                     ELSE self.staged
         IN  [self EXCEPT
                !.staged = Append(kept, [item |-> item, meta |-> Some(weakness)]),
                !.last = "Weak"]

weak(self, item, weakness) ==
    LET i == position(self.staged, item, weakness)
    IN  IF self.last = "Destructive" THEN self
        ELSE IF self.last = "Weak" /\ i = 0 THEN self
        ELSE [self EXCEPT
                !.staged = Append(IF self.last = "Weak"
                                  THEN remove(self.staged, i)
                                  ELSE self.staged,
                                  [item |-> item, meta |-> Some(weakness)]),
                !.last = "Weak"]

\* flush that leaves the entries it filters out in the staging buffer
flush_leaves_weak(self, supportive_) ==
    LET keep(e) == supportive_ \/ e.meta = None
        drop(e) == ~keep(e)
        kept == SelectSeq(self.staged, keep)
    IN  [self EXCEPT
           !.builder = self.builder \o [i \in 1..Len(kept) |-> kept[i].item],
           !.staged = SelectSeq(self.staged, drop)]

\* flush with `supportive && meta.is_none()` as its filter
flush_and(self, supportive_) ==
    LET keep(e) == supportive_ /\ e.meta = None
        kept == SelectSeq(self.staged, keep)
    IN  [self EXCEPT
           !.builder = self.builder \o [i \in 1..Len(kept) |-> kept[i].item],
           !.staged = <<>>]

\* flush that never filters out weak entries
flush_keeps_weak(self, supportive_) ==
    [self EXCEPT
       !.builder = self.builder
                     \o [i \in 1..Len(self.staged) |-> self.staged[i].item],
       !.staged = <<>>]

flush(self, supportive_) ==
    LET keep(e) == supportive_ \/ e.meta = None
        kept == SelectSeq(self.staged, keep)
    IN  [self EXCEPT
           !.builder = self.builder \o [i \in 1..Len(kept) |-> kept[i].item],
           !.staged = <<>>]

\* destructive that flushes the way supportive does
destructive_keeps_weak(self, item) ==
    LET f == flush(self, TRUE)
    IN  [f EXCEPT !.builder = Append(f.builder, item), !.last = "Destructive"]

destructive(self, item) ==
    LET f == flush(self, FALSE)
    IN  [f EXCEPT !.builder = Append(f.builder, item), !.last = "Destructive"]

\* supportive that flushes the way destructive does
supportive_drops_weak(self, item) ==
    LET f == flush(self, FALSE)
    IN  [f EXCEPT !.builder = Append(f.builder, item), !.last = "Supportive"]

supportive(self, item) ==
    LET f == flush(self, TRUE)
    IN  [f EXCEPT !.builder = Append(f.builder, item), !.last = "Supportive"]

\* ignorant that commits its item at once when nothing is staged
ignorant_commits_early(self, item) ==
    IF self.staged = <<>>
    THEN [self EXCEPT !.builder = Append(self.builder, item)]
    ELSE [self EXCEPT
            !.staged = Append(self.staged, [item |-> item, meta |-> None])]

\* ignorant that records its item as content in `last`
ignorant_as_content(self, item) ==
    [self EXCEPT
       !.staged = Append(self.staged, [item |-> item, meta |-> None]),
       !.last = "Supportive"]

ignorant(self, item) ==
    [self EXCEPT !.staged = Append(self.staged, [item |-> item, meta |-> None])]

\* items that leaves out the staged weak entry, as finish() would
items_as_finished(self) ==
    LET keep(e) == e.meta = None
        kept == SelectSeq(self.staged, keep)
    IN  self.builder \o [i \in 1..Len(kept) |-> kept[i].item]

items(self) ==
    self.builder \o [i \in 1..Len(self.staged) |-> self.staged[i].item]

\* finish that flushes the way supportive does
finish_keeps_weak(self) == flush(self, TRUE)

finish(self) == flush(self, FALSE)

---------------------------------------------------------------------------
(* The state machine *)

Self == [builder |-> builder, staged |-> staged, last |-> last]

\* a call through `&mut self` (or `self`): no borrow by items() outlives it
Install(s) ==
    /\ builder' = s.builder
    /\ staged' = s.staged
    /\ last' = s.last
    /\ iter' = None

NextItem(p) == [id |-> Len(calls) + 1, payload |-> p]

Record(op, item, weakness) ==
    calls' = Append(calls, [op |-> op, item |-> item, weakness |-> weakness])

CanCall == ~finished /\ Len(calls) < MaxCalls

Init ==
    /\ builder = new.builder
    /\ staged = new.staged
    /\ last = new.last
    /\ calls = <<>>
    /\ finished = FALSE
    /\ iter = None

CallWeak ==
    /\ CanCall
    /\ \E in \in WeakInputs :
         /\ Install(weak(Self, NextItem(in[1]), in[2]))
         /\ Record("weak", NextItem(in[1]), in[2])
    /\ UNCHANGED finished

CallDestructive ==
    /\ CanCall
    /\ \E p \in OtherPayloads :
         /\ Install(destructive(Self, NextItem(p)))
         /\ Record("destructive", NextItem(p), 0)
    /\ UNCHANGED finished

CallSupportive ==
    /\ CanCall
    /\ \E p \in OtherPayloads :
         /\ Install(supportive(Self, NextItem(p)))
         /\ Record("supportive", NextItem(p), 0)
    /\ UNCHANGED finished

CallIgnorant ==
    /\ CanCall
    /\ \E p \in OtherPayloads :
         /\ Install(ignorant(Self, NextItem(p)))
         /\ Record("ignorant", NextItem(p), 0)
    /\ UNCHANGED finished

CallFinish ==
    /\ ~finished
    /\ Install(finish(Self))
    /\ finished' = TRUE
    /\ UNCHANGED calls

\* items() through `&self`: what the returned iterator yields
CallItems ==
    /\ ~finished
    /\ iter' = <<items(Self)>>
    /\ UNCHANGED <<builder, staged, last, calls, finished>>

Next ==
    \/ CallWeak
    \/ CallDestructive
    \/ CallSupportive
    \/ CallIgnorant
    \/ CallFinish
    \/ CallItems

Spec == Init /\ [][Next]_vars

---------------------------------------------------------------------------
(* test_collapsing_weak: the calls of the test in their order, each with any *)
(* payload of the test's                                                     *)

\* the operation and weakness of each call of the test
Script ==
    << [op |-> "weak", weakness |-> 0],
       [op |-> "supportive", weakness |-> 0],
       [op |-> "weak", weakness |-> 0],
       [op |-> "ignorant", weakness |-> 0],
       [op |-> "weak", weakness |-> 0],
       [op |-> "supportive", weakness |-> 0],
       [op |-> "weak", weakness |-> 0],
       [op |-> "weak", weakness |-> 1],
       [op |-> "supportive", weakness |-> 0] >>

\* the payloads the test hands to weak(), and those it hands to ignorant()
ScriptWeakPayloads == {Colbreak} \cup {Spacing(a) : a \in Amounts}

ScriptIgnorantPayloads == {Colbreak, Node}

\* the payloads of the calls of the test
ScriptPayloads ==
    << Colbreak, Node, Spacing(10), Colbreak, Spacing(20), Node,
       Spacing(10), Spacing(20), Node >>

ScriptAt(op) ==
    /\ ~finished
    /\ Len(calls) < Len(Script)
    /\ Script[Len(calls) + 1].op = op

ScriptWeak ==
    /\ ScriptAt("weak")
    /\ \E p \in ScriptWeakPayloads :
         /\ Install(weak(Self, NextItem(p), Script[Len(calls) + 1].weakness))
         /\ Record("weak", NextItem(p), Script[Len(calls) + 1].weakness)
    /\ UNCHANGED finished

ScriptSupportive ==
    /\ ScriptAt("supportive")
    /\ \E p \in OtherPayloads :
         /\ Install(supportive(Self, NextItem(p)))
         /\ Record("supportive", NextItem(p), 0)
    /\ UNCHANGED finished

ScriptIgnorant ==
    /\ ScriptAt("ignorant")
    /\ \E p \in ScriptIgnorantPayloads :
         /\ Install(ignorant(Self, NextItem(p)))
         /\ Record("ignorant", NextItem(p), 0)
    /\ UNCHANGED finished

\* test(): builder.finish() once every call is made
ScriptFinish ==
    /\ ~finished
    /\ Len(calls) = Len(Script)
    /\ Install(finish(Self))
    /\ finished' = TRUE
    /\ UNCHANGED calls

ScriptNext ==
    \/ ScriptWeak
    \/ ScriptSupportive
    \/ ScriptIgnorant
    \/ ScriptFinish

ScriptSpec == Init /\ [][ScriptNext]_vars

TypeOK ==
    /\ last \in {"Weak", "Destructive", "Supportive"}
    /\ finished \in BOOLEAN
    /\ Len(calls) <= MaxCalls

---------------------------------------------------------------------------
(* Vocabulary of the properties *)

\* the operation that submitted an item
OpOf(it) == calls[it.id].op

\* the item submitted by call i is in seq
InSeq(seq, i) == \E k \in 1..Len(seq) : seq[k].id = i

\* the item submitted by call i is in seq exactly once
OnceInSeq(seq, i) ==
    \E k \in 1..Len(seq) :
      /\ seq[k].id = i
      /\ \A l \in 1..Len(seq) : seq[l].id = i => l = k

\* calls a and b are supportive and only weak and ignorant calls lie between
OpenGap(a, b) ==
    /\ a < b
    /\ calls[a].op = "supportive"
    /\ calls[b].op = "supportive"
    /\ \A k \in (a + 1)..(b - 1) : calls[k].op \in {"weak", "ignorant"}

WeakCallsIn(a, b) == {k \in (a + 1)..(b - 1) : calls[k].op = "weak"}

IgnorantBetween(i, j) == \E k \in (i + 1)..(j - 1) : calls[k].op = "ignorant"

\* position i of seq has a supportive item before it and one after it, with
\* only ignorant items between it and each of them
Sandwiched(seq, i) ==
    /\ \E j \in 1..(i - 1) :
         /\ OpOf(seq[j]) = "supportive"
         /\ \A k \in (j + 1)..(i - 1) : OpOf(seq[k]) = "ignorant"
    /\ \E j \in (i + 1)..Len(seq) :
         /\ OpOf(seq[j]) = "supportive"
         /\ \A k \in (i + 1)..(j - 1) : OpOf(seq[k]) = "ignorant"

\* the operations called so far, in call order
Ops == [i \in 1..Len(calls) |-> calls[i].op]

\* this step is a call of op
Called(op) == Len(calls') = Len(calls) + 1 /\ calls'[Len(calls')].op = op

\* the item handed over by the call of this step
Argument == calls'[Len(calls')].item

Front(seq) == SubSeq(seq, 1, Len(seq) - 1)

\* the items of the ignorant entries of a staging buffer, in staged order
RECURSIVE IgnorantItems(_)
IgnorantItems(entries) ==
    IF entries = <<>> THEN <<>>
    ELSE (IF Head(entries).meta = None THEN <<Head(entries).item>> ELSE <<>>)
           \o IgnorantItems(Tail(entries))

\* the items of all entries of a staging buffer, in staged order
RECURSIVE AllItems(_)
AllItems(entries) ==
    IF entries = <<>> THEN <<>>
    ELSE <<Head(entries).item>> \o AllItems(Tail(entries))

\* the supportive and destructive calls before call i
BoundariesBefore(i) ==
    {j \in 1..(i - 1) : calls[j].op \in {"supportive", "destructive"}}

\* the supportive and destructive calls after call i
BoundariesAfter(i) ==
    {j \in (i + 1)..Len(calls) : calls[j].op \in {"supportive", "destructive"}}

Latest(S) == CHOOSE j \in S : \A k \in S : k <= j

Earliest(S) == CHOOSE j \in S : \A k \in S : j <= k

\* no supportive or destructive call precedes call i, or the latest one is
\* destructive
AfterBreak(i) ==
    BoundariesBefore(i) = {}
      \/ calls[Latest(BoundariesBefore(i))].op = "destructive"

\* seq holds submitted items, each once, in the order of their calls
CallOrdered(seq) ==
    /\ \A k \in 1..Len(seq) :
         /\ seq[k].id \in 1..Len(calls)
         /\ seq[k] = calls[seq[k].id].item
    /\ \A k, l \in 1..Len(seq) : k < l => seq[k].id < seq[l].id

\* one call applied to a builder value
Apply(self, c) ==
    CASE c.op = "weak" -> weak(self, c.item, c.weakness)
      [] c.op = "destructive" -> destructive(self, c.item)
      [] c.op = "supportive" -> supportive(self, c.item)
      [] c.op = "ignorant" -> ignorant(self, c.item)

\* the builder a fresh engine reaches on the first n calls made so far
RECURSIVE After(_)
After(n) == IF n = 0 THEN new ELSE Apply(After(n - 1), calls[n])

\* the entries of a staging buffer that carry a weakness
WeakEntries(entries) == {k \in 1..Len(entries) : entries[k].meta # None}

\* a challenger with weakness w and payload p does not beat entry e
Loses(w, p, e) ==
    w > e.meta[1] \/ (w = e.meta[1] /\ ~Gt(p, e.item.payload))

\* a challenger beats none of the weak entries
LosesAll(c, entries) ==
    \A k \in WeakEntries(entries) :
      Loses(c.weakness, c.item.payload, entries[k])

\* call i handed over a non-ignorant item that was staged or committed by
\* that call
Accepted(i) ==
    \/ calls[i].op \in {"supportive", "destructive"}
    \/ calls[i].op = "weak" /\ InSeq(AllItems(After(i).staged), i)

ClassOf(op) ==
    CASE op = "weak" -> "Weak"
      [] op = "supportive" -> "Supportive"
      [] op = "destructive" -> "Destructive"

IsPrefix(s1, s2) == Len(s1) <= Len(s2) /\ SubSeq(s2, 1, Len(s1)) = s1

\* where the item submitted by call i sits in seq
PosIn(seq, i) == CHOOSE k \in 1..Len(seq) : seq[k].id = i

NotIgnorantItem(it) == OpOf(it) # "ignorant"

NotIgnorantEntry(e) == e.meta # None

\* the builder a fresh engine reaches on the first n calls made so far with
\* the ignorant calls left out
RECURSIVE SkippingIgnorant(_)
SkippingIgnorant(n) ==
    IF n = 0 THEN new
    ELSE IF calls[n].op = "ignorant" THEN SkippingIgnorant(n - 1)
    ELSE Apply(SkippingIgnorant(n - 1), calls[n])

\* the same for all the calls made so far, finish() included
WithoutIgnorant ==
    IF finished
    THEN finish(SkippingIgnorant(Len(calls)))
    ELSE SkippingIgnorant(Len(calls))

---------------------------------------------------------------------------
\* C1: every weak item of the finished sequence has a supportive item before
\* it and a supportive item after it, and only ignorant items (no destructive
\* one) lie between it and the nearest supportive item on either side.
C1_WeakIsSandwiched ==
    finished =>
      \A i \in 1..Len(builder) :
        OpOf(builder[i]) = "weak" => Sandwiched(builder, i)

\* a weak item survived with an ignorant item on each side of it
C1_Witness ==
    /\ finished
    /\ \E i \in 2..(Len(builder) - 1) :
         /\ OpOf(builder[i]) = "weak"
         /\ OpOf(builder[i - 1]) = "ignorant"
         /\ OpOf(builder[i + 1]) = "ignorant"

\* C2: of exactly two weak items with different strengths submitted in one
\* gap between two supportive calls, the finished sequence contains the one
\* with the smaller strength value and not the other, whatever their
\* submission order and whatever the item ordering says.
C2_LowerStrengthWins ==
    finished =>
      \A a, b \in 1..Len(calls) :
        OpenGap(a, b) =>
          \A i, j \in WeakCallsIn(a, b) :
            (WeakCallsIn(a, b) = {i, j}
               /\ calls[i].weakness < calls[j].weakness)
            => (InSeq(builder, i) /\ ~InSeq(builder, j))

\* the stronger item was submitted second, after an ignorant call, and the
\* item ordering favours the loser
C2_Witness ==
    /\ finished
    /\ \E a, b \in 1..Len(calls) :
         /\ OpenGap(a, b)
         /\ \E i, j \in WeakCallsIn(a, b) :
              /\ WeakCallsIn(a, b) = {i, j}
              /\ calls[i].weakness < calls[j].weakness
              /\ j < i
              /\ IgnorantBetween(j, i)
              /\ Gt(calls[j].item.payload, calls[i].item.payload)
              /\ InSeq(builder, i)

\* C3: of exactly two weak items with the same strength submitted in one gap
\* between two supportive calls, one strictly greater than the other under
\* the item ordering, the finished sequence contains the greater one and not
\* the other, whatever their submission order.
C3_GreaterWinsTie ==
    finished =>
      \A a, b \in 1..Len(calls) :
        OpenGap(a, b) =>
          \A i, j \in WeakCallsIn(a, b) :
            (WeakCallsIn(a, b) = {i, j}
               /\ calls[i].weakness = calls[j].weakness
               /\ Gt(calls[i].item.payload, calls[j].item.payload))
            => (InSeq(builder, i) /\ ~InSeq(builder, j))

\* the greater item was submitted first and the later, smaller one was dropped
C3_Witness ==
    /\ finished
    /\ \E a, b \in 1..Len(calls) :
         /\ OpenGap(a, b)
         /\ \E i, j \in WeakCallsIn(a, b) :
              /\ WeakCallsIn(a, b) = {i, j}
              /\ calls[i].weakness = calls[j].weakness
              /\ Gt(calls[i].item.payload, calls[j].item.payload)
              /\ i < j
              /\ IgnorantBetween(i, j)
              /\ InSeq(builder, i)
              /\ ~InSeq(builder, j)

C4_DestructiveStep ==
    Called("destructive") =>
      /\ builder' = builder \o IgnorantItems(staged) \o <<Argument>>
      /\ staged' = <<>>
      /\ last' = "Destructive"

C4_WeakBeforeDestructiveIsGone ==
    /\ \A i \in 1..Len(calls) :
         (/\ calls[i].op = "weak"
          /\ BoundariesAfter(i) # {}
          /\ calls[Earliest(BoundariesAfter(i))].op = "destructive")
         => ~InSeq(items(Self), i)
    /\ (finished /\ Ops = <<"supportive", "weak", "destructive">>)
         => builder = <<calls[1].item, calls[3].item>>

\* C4: destructive() discards the staged weak entry, commits the staged
\* ignorant entries in staged order and then its own item, empties the staging
\* buffer and sets the state to Destructive; a weak item whose next
\* supportive-or-destructive call is destructive is never in the finished
\* sequence (supportive(A); weak(S,0); destructive(B) finishes as [A, B]).
C4_DestructiveDiscardsWeak ==
    [][C4_DestructiveStep]_vars /\ [](C4_WeakBeforeDestructiveIsGone)

\* destructive() was called with a weak and an ignorant entry staged
C4_Witness ==
    /\ ~finished
    /\ Ops = <<"supportive", "weak", "ignorant", "destructive">>
    /\ builder = <<calls[1].item, calls[3].item, calls[4].item>>
    /\ staged = <<>>

C5_WeakStep ==
    (Called("weak") /\ last = "Destructive") =>
      UNCHANGED <<builder, staged, last>>

C5_DroppedAfterBreak ==
    /\ (last = "Destructive") <=> AfterBreak(Len(calls) + 1)
    /\ \A i \in 1..Len(calls) :
         (calls[i].op = "weak" /\ AfterBreak(i)) => ~InSeq(items(Self), i)

\* C5: a weak() call made while the state is Destructive (no supportive call
\* since the start or since the latest destructive call, whatever ignorant
\* calls lie in between) leaves the committed sequence, the staging buffer and
\* the state unchanged, and its item is never in the finished sequence.
C5_WeakAfterBreakIsNoOp ==
    [][C5_WeakStep]_vars /\ [](C5_DroppedAfterBreak)

\* weak() was called after a destructive call and an ignorant call
C5_Witness ==
    /\ ~finished
    /\ Ops = <<"supportive", "destructive", "ignorant", "weak">>
    /\ last = "Destructive"
    /\ Len(staged) = 1
    /\ Len(builder) = 2

C6_FinishStep ==
    (~finished /\ finished') =>
      /\ builder' = builder \o IgnorantItems(staged)
      /\ builder' = Front(finish(destructive(Self, NextItem(Node))).builder)

C6_TrailingWeakIsGone ==
    finished =>
      \A i \in 1..Len(calls) :
        (calls[i].op = "weak" /\ BoundariesAfter(i) = {}) => ~InSeq(builder, i)

\* C6: finish() returns the committed items followed by the staged ignorant
\* entries in staged order and discards the staged weak entry; no weak item
\* submitted after the last supportive/destructive call is in the finished
\* sequence; and finish() yields what destructive(X) followed by finish()
\* yields with the trailing X removed.
C6_FinishIsImplicitBreak ==
    [][C6_FinishStep]_vars /\ [](C6_TrailingWeakIsGone)

\* finish() was called with a weak entry staged between two ignorant entries
C6_Witness ==
    /\ finished
    /\ Ops = <<"supportive", "ignorant", "weak", "ignorant">>
    /\ builder = <<calls[1].item, calls[2].item, calls[4].item>>

C7_SupportiveStep ==
    Called("supportive") =>
      /\ builder' = builder \o AllItems(staged) \o <<Argument>>
      /\ staged' = <<>>
      /\ last' = "Supportive"

C7_Example ==
    (finished /\ Ops = <<"supportive", "weak", "supportive">>)
      => builder = <<calls[1].item, calls[2].item, calls[3].item>>

\* C7: supportive() commits every staged entry, weak and ignorant alike, in
\* staged order, then its own item, empties the staging buffer and sets the
\* state to Supportive (supportive(A); weak(S,0); supportive(B) finishes as
\* [A, S, B]).
C7_SupportiveKeepsStaged ==
    [][C7_SupportiveStep]_vars /\ [](C7_Example)

\* supportive() was called with a weak entry staged between two ignorant ones
C7_Witness ==
    /\ ~finished
    /\ Ops = <<"supportive", "ignorant", "weak", "ignorant", "supportive">>
    /\ builder = [i \in 1..5 |-> calls[i].item]
    /\ staged = <<>>

\* C8: the committed items followed by the staged items (what items()
\* reports), and so the finished sequence, are a subsequence of the submitted
\* items in call order: each retained item occurs once and retained items keep
\* the relative order of their calls.
C8_CallOrderKept ==
    /\ CallOrdered(builder \o AllItems(staged))
    /\ finished => CallOrdered(builder)

\* a weak challenger won and sits after the ignorant entry staged before it
C8_Witness ==
    /\ ~finished
    /\ Ops = <<"supportive", "weak", "ignorant", "weak">>
    /\ AllItems(staged) = <<calls[3].item, calls[4].item>>

\* C9: every item submitted via ignorant(), supportive() or destructive() is
\* held exactly once (committed or staged) and occurs exactly once in the
\* finished sequence; only items submitted via weak() are ever missing.
C9_OnlyWeakIsDropped ==
    /\ LET held == builder \o AllItems(staged)
       IN  \A i \in 1..Len(calls) :
             calls[i].op # "weak" => OnceInSeq(held, i)
    /\ finished =>
         \A i \in 1..Len(calls) :
           /\ calls[i].op # "weak" => OnceInSeq(builder, i)
           /\ ~InSeq(builder, i) => calls[i].op = "weak"

\* ignorant items staged on a fresh engine and before a destructive call are
\* kept while the weak item is dropped
C9_Witness ==
    /\ finished
    /\ Ops = <<"ignorant", "supportive", "weak", "ignorant", "destructive">>
    /\ builder = <<calls[1].item, calls[2].item, calls[4].item, calls[5].item>>

\* C10: the calls made so far with the ignorant calls left out lead a fresh
\* engine to the same state (Weak/Destructive/Supportive), the same staged
\* weak entry and the same committed and finished sequence as the engine has,
\* once the ignorant items are deleted from the latter.
C10_IgnorantIsTransparent ==
    LET other == WithoutIgnorant
    IN  /\ other.last = last
        /\ other.staged = SelectSeq(staged, NotIgnorantEntry)
        /\ other.builder = SelectSeq(builder, NotIgnorantItem)

\* two weak items contested across an ignorant item and the challenger won
C10_Witness ==
    /\ finished
    /\ Ops = <<"supportive", "weak", "ignorant", "weak", "supportive">>
    /\ builder = <<calls[1].item, calls[3].item, calls[4].item, calls[5].item>>

C13_ItemsStep ==
    (~finished /\ iter' # None /\ calls' = calls /\ finished' = finished) =>
      /\ iter' = <<builder \o AllItems(staged)>>
      /\ UNCHANGED <<builder, staged, last>>

C13_SameAgain ==
    iter # None => iter = <<builder \o AllItems(staged)>>

\* C13: items() before finish() yields the committed items in commit order
\* followed by all staged items, weak and ignorant, in staged order, leaves
\* the committed sequence, the staging buffer and the state unchanged, and so
\* yields the same sequence again while no mutating call intervenes.
C13_ItemsInspects ==
    [][C13_ItemsStep]_vars /\ [](C13_SameAgain)

\* items() was called with a weak and an ignorant entry staged behind two
\* committed items
C13_Witness ==
    /\ ~finished
    /\ Ops = <<"ignorant", "supportive", "weak", "ignorant">>
    /\ iter = <<[i \in 1..4 |-> calls[i].item]>>

\* C11: at most one entry of the staging buffer carries a strength value;
\* all other staged entries are ignorant.
C11_OneWeakStaged == Cardinality(WeakEntries(staged)) <= 1

\* a challenger replaced the staged weak entry behind two ignorant entries
C11_Witness ==
    /\ ~finished
    /\ Ops = <<"supportive", "weak", "ignorant", "ignorant", "weak">>
    /\ AllItems(staged) = <<calls[3].item, calls[4].item, calls[5].item>>
    /\ WeakEntries(staged) = {3}

C14_LoserStep ==
    (Called("weak") /\ last = "Weak" /\ LosesAll(calls'[Len(calls')], staged))
      => UNCHANGED <<builder, staged, last>>

C14_LoserIsGone ==
    \A i \in 1..Len(calls) :
      (/\ calls[i].op = "weak"
       /\ After(i - 1).last = "Weak"
       /\ LosesAll(calls[i], After(i - 1).staged))
      => ~InSeq(builder \o AllItems(staged), i)

\* C14: a weak() call made in state Weak whose item does not beat the staged
\* weak entry (larger strength value, or equal strength and not strictly
\* greater: smaller, equal or incomparable) leaves the staging buffer, the
\* committed sequence and the state unchanged, and its item is never held or
\* finished, whatever challengers follow.
C14_LosingWeakIsNoOp ==
    [][C14_LoserStep]_vars /\ [](C14_LoserIsGone)

\* a tie loser was dropped, and so was a later challenger it would have beaten
C14_Witness ==
    /\ finished
    /\ Ops = <<"supportive", "weak", "weak", "weak", "supportive">>
    /\ calls[2].weakness = 0 /\ calls[2].item.payload = Spacing(20)
    /\ calls[3].weakness = 0 /\ calls[3].item.payload = Spacing(10)
    /\ calls[4].weakness = 1
    /\ builder = <<calls[1].item, calls[2].item, calls[5].item>>

C15_LastStep ==
    /\ Called("ignorant") => last' = last
    /\ Called("supportive") => last' = "Supportive"
    /\ Called("destructive") => last' = "Destructive"
    /\ Called("weak") =>
         IF InSeq(AllItems(staged'), Argument.id)
         THEN last' = "Weak"
         ELSE last' = last

C15_LastIsLatestClass ==
    LET accepted == {i \in 1..Len(calls) : Accepted(i)}
    IN  last = IF accepted = {} THEN "Destructive"
               ELSE ClassOf(calls[Latest(accepted)].op)

\* C15: the state is the class of the item of the latest call whose
\* non-ignorant item was staged or committed (Destructive if there is none):
\* ignorant() and a weak() whose item is dropped leave it, supportive(),
\* destructive() and a staged weak() set it to Supportive, Destructive, Weak.
C15_LastTracksClass ==
    [][C15_LastStep]_vars /\ [](C15_LastIsLatestClass)

\* the state is still Weak after an ignorant call and a dropped weak call
C15_Witness ==
    /\ ~finished
    /\ Ops = <<"supportive", "weak", "ignorant", "weak">>
    /\ AllItems(staged) = <<calls[2].item, calls[3].item>>
    /\ last = "Weak"

C16_CommitStep ==
    /\ IsPrefix(builder, builder')
    /\ (Called("weak") \/ Called("ignorant")) => builder' = builder
    /\ builder' # builder =>
         \/ Called("supportive")
         \/ Called("destructive")
         \/ (~finished /\ finished')

C16_EarlierIsPrefix ==
    \A n \in 0..Len(calls) : IsPrefix(After(n).builder, builder)

\* C16: the committed sequence changes only in supportive(), destructive()
\* and finish(), and only by appending; weak() and ignorant() leave it; the
\* committed sequence after any number of the calls made is a prefix of the
\* committed sequence now and of the finished sequence.
C16_CommittedOnlyGrows ==
    [][C16_CommitStep]_vars /\ [](C16_EarlierIsPrefix)

\* the committed sequence grew in supportive(), destructive() and finish()
C16_Witness ==
    /\ finished
    /\ Ops = <<"supportive", "ignorant", "destructive", "ignorant">>
    /\ builder = [i \in 1..4 |-> calls[i].item]

\* C17: before finish(), is_empty() is true exactly when nothing is committed
\* and nothing is staged, which is exactly when every call so far was a
\* weak() call (true on a fresh engine and after weak() calls only, false
\* once ignorant(), supportive() or destructive() was called).
C17_EmptyUntilFirstItem ==
    ~finished =>
      /\ is_empty(Self) <=> (Len(builder) = 0 /\ Len(staged) = 0)
      /\ is_empty(Self) <=> (\A i \in 1..Len(calls) : calls[i].op = "weak")

\* the engine is still empty after three weak() calls
C17_Witness ==
    /\ ~finished
    /\ Ops = <<"weak", "weak", "weak">>
    /\ is_empty(Self)

\* C18: of the weak items submitted in one gap between two supportive calls
\* exactly one is in the finished sequence, between the two supportive
\* items; no submitted item has a smaller strength value, none of the same
\* strength is strictly greater, and where the submitted items are totally
\* ordered it is the earliest-submitted of the best ones.
C18_BestOfGapSurvives ==
    finished =>
      \A a, b \in 1..Len(calls) :
        (OpenGap(a, b) /\ WeakCallsIn(a, b) # {}) =>
          \E w \in WeakCallsIn(a, b) :
            /\ InSeq(builder, w)
            /\ PosIn(builder, a) < PosIn(builder, w)
            /\ PosIn(builder, w) < PosIn(builder, b)
            /\ \A x \in WeakCallsIn(a, b) :
                 /\ x # w => ~InSeq(builder, x)
                 /\ calls[w].weakness <= calls[x].weakness
                 /\ ~(/\ calls[x].weakness = calls[w].weakness
                      /\ Gt(calls[x].item.payload, calls[w].item.payload))
            /\ (\A x \in WeakCallsIn(a, b) :
                  calls[x].item.payload.kind = "Spacing")
               => \A x \in WeakCallsIn(a, b) :
                    (/\ calls[x].weakness = calls[w].weakness
                     /\ calls[x].item.payload = calls[w].item.payload)
                    => w <= x

\* three weak items in one gap: the second beat the first on strength, the
\* third beat the second on the tie-break
C18_Witness ==
    /\ finished
    /\ Ops = <<"supportive", "weak", "weak", "weak", "supportive">>
    /\ calls[2].weakness = 1
    /\ calls[3].weakness = 0 /\ calls[3].item.payload = Spacing(10)
    /\ calls[4].weakness = 0 /\ calls[4].item.payload = Spacing(20)
    /\ builder = <<calls[1].item, calls[4].item, calls[5].item>>

C19_BoundaryStep ==
    (Called("supportive") \/ Called("destructive")) => staged' = <<>>

C19_WeakIffStaged ==
    ~finished =>
      /\ (last = "Weak") <=> (Cardinality(WeakEntries(staged)) = 1)
      /\ last \in {"Supportive", "Destructive"} => WeakEntries(staged) = {}

\* C19: before finish(), the state is Weak exactly when the staging buffer
\* holds exactly one entry with a strength value; in state Supportive or
\* Destructive it holds ignorant entries only; right after supportive() or
\* destructive() it is empty.
C19_StateMatchesStaging ==
    [][C19_BoundaryStep]_vars /\ [](C19_WeakIffStaged)

\* state Weak with one weak entry staged between two ignorant entries
C19_Witness ==
    /\ ~finished
    /\ Ops = <<"destructive", "supportive", "ignorant", "weak", "ignorant">>
    /\ last = "Weak"
    /\ WeakEntries(staged) = {2}
    /\ Len(staged) = 3

\* the calls made are those of test_collapsing_weak, payloads included
IsScript ==
    /\ Len(calls) = Len(Script)
    /\ \A i \in 1..Len(Script) :
         /\ calls[i].op = Script[i].op
         /\ calls[i].weakness = Script[i].weakness
         /\ calls[i].item.payload = ScriptPayloads[i]

\* C12: weak(Break,0), supportive(Node1), weak(Space10,0), ignorant(Break2),
\* weak(Space20,0), supportive(Node2), weak(Space10b,0), weak(Space20b,1),
\* supportive(Node3), finish() on a fresh engine yields exactly
\* [Node1, Break2, Space20, Node2, Space10b, Node3].
C12_TestCollapsingWeak ==
    (finished /\ IsScript) =>
      /\ builder = <<calls[2].item, calls[4].item, calls[5].item,
                     calls[6].item, calls[7].item, calls[9].item>>
      /\ [i \in 1..Len(builder) |-> builder[i].payload]
           = <<Node, Colbreak, Spacing(20), Node, Spacing(10), Node>>

\* the test ran to its end
C12_Witness ==
    /\ finished
    /\ IsScript
    /\ Len(builder) = 6

====
